---------------------------- MODULE Spec2Model ----------------------------
(***************************************************************************)
(* Model of the agent wake / heartbeat monitoring core of                  *)
(* python-cloudbackup-sdk:                                                 *)
(*   cloudbackup/client/rse.py     Rse.Query, Rse.MonitorForHeartBeat      *)
(*   cloudbackup/client/agents.py  _keep_agent_wake_thread_fn,             *)
(*                                 Agents.WakeAgents, WakeSpecificAgent,   *)
(*                                 KeepAgentAwake, StopKeepAgentWake,      *)
(*                                 Agents.__del__                          *)
(***************************************************************************)
EXTENDS Integers, Sequences, FiniteSets, TLC

(***************************************************************************)
(* Bounds of the model.                                                    *)
(***************************************************************************)
\* number of distinct agent ids a caller uses
NumAgents == 2
\* longest event list of one poll response
MaxEvents == 2
\* number of KeepAgentAwake calls made on one Agents object
MaxStarts == 2
\* number of threads that call into one Agents object at the same time
NumCallers == 2
\* how far one reading of the clock is from the next, in milliseconds
TickMs == 10000
\* the timeoutMilliseconds a caller passes to WakeSpecificAgent
CallerTimeoutMs == 5000
\* a wake period longer than one sleep of the keep-awake loop
LongPeriod == 2000
\* the calls of MonitorForHeartBeat counted within one WakeSpecificAgent
MaxPolls == 2
\* number of levels PushLogLevel saves for one agent
MaxPush == 2
\* number of GetAgentDetails calls made on one Agents object
MaxDetailCalls == 3
\* number of polls made through the Rse objects of one caller
MaxModePolls == 3
\* the requests one Backup object makes
MaxBackupCalls == 3

AgentIds == 1..NumAgents

(***************************************************************************)
(* JSON values as Python sees them after res.json(): a tagged record.      *)
(*   object  [t |-> "obj", v |-> function from the present keys to values] *)
(*   array   [t |-> "arr", v |-> sequence of values]                       *)
(*   number  [t |-> "num", v |-> n]   string [t |-> "str", v |-> s]        *)
(*   null    [t |-> "null"]                                                *)
(***************************************************************************)
JObj(f) == [t |-> "obj", v |-> f]
JArr(s) == [t |-> "arr", v |-> s]
JNum(n) == [t |-> "num", v |-> n]
JStr(s) == [t |-> "str", v |-> s]
JNull == [t |-> "null"]
EmptyDict == [k \in {} |-> JNull]

\* results of evaluating a Python expression: a value or a raised exception
Ok(x) == [ok |-> TRUE, val |-> x]
Raise(e) == [ok |-> FALSE, exc |-> e]

\* Python  v[key]  for a string key: a dict without the key raises KeyError
\* (a LookupError); anything that is not a dict raises TypeError.
Subscript(v, key) ==
    IF v.t = "obj"
    THEN IF key \in DOMAIN v.v THEN Ok(v.v[key]) ELSE Raise("KeyError")
    ELSE Raise("TypeError")

\* Python  key in v : key test on a dict, element test on a list, TypeError
\* on a number or None.
Contains(v, key) ==
    CASE v.t = "obj" -> Ok(key \in DOMAIN v.v)
      [] v.t = "arr" -> Ok(\E i \in 1..Len(v.v) : v.v[i] = JStr(key))
      [] v.t \in {"num", "null"} -> Raise("TypeError")

RECURSIVE SetToSeq(_)
SetToSeq(S) ==
    IF S = {} THEN <<>>
    ELSE LET x == CHOOSE y \in S : TRUE IN <<x>> \o SetToSeq(S \ {x})

\* Python  for event in v : the elements of a list, the keys of a dict,
\* TypeError on a number or None.
Iterate(v) ==
    CASE v.t = "arr" -> Ok(v.v)
      [] v.t = "obj" -> Ok([i \in 1..Cardinality(DOMAIN v.v) |->
                              JStr(SetToSeq(DOMAIN v.v)[i])])
      [] v.t \in {"num", "null"} -> Raise("TypeError")


(***************************************************************************)
(* rse.py: one poll of the event channel.                                  *)
(***************************************************************************)
\* rse.py:178 and :189, the literal in  event['age'] < 26
FreshnessLimit == 26

\* What requests.get hands back: a response with a status code and a body,
\* or no response at all (requests raises ConnectionError).  A body that
\* is not JSON is [t |-> "invalid"]: res.json() raises ValueError on it.
HttpOk(body) == [net |-> "up", status |-> 200, body |-> body]
HttpError == [net |-> "up", status |-> 503, body |-> JNull]
HttpDown == [net |-> "down", status |-> 0, body |-> JNull]
InvalidJson == [t |-> "invalid"]

\* Rse.Query: the parsed body of a 200 response, {} for any other status;
\* an exception of requests.get or of res.json() is not caught.
Query(http) ==
    IF http.net = "down" THEN Raise("ConnectionError")
    ELSE IF http.status = 200
         THEN IF http.body.t = "invalid" THEN Raise("ValueError")
              ELSE Ok(http.body)
         ELSE Ok(JObj(EmptyDict))

\* the bound taken as inclusive
IsFresh_Inclusive(age) == age <= FreshnessLimit

\* rse.py:178 and :189:  event['age'] < 26
IsFresh(age) == age < FreshnessLimit

\* The test of one event, rse.py:177-179 (the same text at :188-190):
\* Ok(TRUE) on a fresh heartbeat of the agent, Ok(FALSE) on another event,
\* the exception of the first failing subscript otherwise.  `and` does not
\* evaluate event['age'] when the agent id differs.
HeartbeatTest(event, machine_agent_id) ==
    LET d == Subscript(event, "data") IN
    IF ~d.ok THEN Raise(d.exc) ELSE
    LET e == Subscript(d.val, "Event") IN
    IF ~e.ok THEN Raise(e.exc) ELSE
    IF ~(e.val.t = "str" /\ e.val.v = "Heartbeat") THEN Ok(FALSE) ELSE
    LET m == Subscript(d.val, "MachineAgentId") IN
    IF ~m.ok THEN Raise(m.exc) ELSE
    IF ~(m.val.t = "num" /\ m.val.v = machine_agent_id) THEN Ok(FALSE) ELSE
    LET a == Subscript(event, "age") IN
    IF ~a.ok THEN Raise(a.exc) ELSE
    IF a.val.t # "num" THEN Raise("TypeError")
    ELSE Ok(IsFresh(a.val.v))

\* The for loop over the events, rse.py:171-180 and :182-192: True at the
\* first matching event, False when the list is exhausted, the exception
\* name when a test raises.
RECURSIVE ScanEvents(_, _, _)
ScanEvents(events, machine_agent_id, i) ==
    IF i > Len(events) THEN "False"
    ELSE LET r == HeartbeatTest(events[i], machine_agent_id) IN
         IF ~r.ok THEN r.exc
         ELSE IF r.val THEN "True"
         ELSE ScanEvents(events, machine_agent_id, i + 1)

\* The body of the try block once Query has returned rsemsg, rse.py:168-192.
ScanMessage(rsemsg, machine_agent_id) ==
    LET c == Contains(rsemsg, "events") IN
    IF ~c.ok THEN c.exc
    ELSE IF c.val
    THEN LET ev == Subscript(rsemsg, "events") IN
         IF ~ev.ok THEN ev.exc
         ELSE LET it == Iterate(ev.val) IN
              IF ~it.ok THEN it.exc ELSE ScanEvents(it.val, machine_agent_id, 1)
    ELSE LET it == Iterate(rsemsg) IN
         IF ~it.ok THEN it.exc ELSE ScanEvents(it.val, machine_agent_id, 1)

\* except LookupError: return False (rse.py:193-195).  KeyError and
\* IndexError are LookupErrors; TypeError, ValueError and the exceptions of
\* requests are not, and leave the call.
LookupErrors == {"KeyError", "IndexError"}
CatchLookupError(outcome) == IF outcome \in LookupErrors THEN "False" ELSE outcome

\* Rse.MonitorForHeartBeat for one response of the channel: "True", "False"
\* or the name of the exception that leaves the call.
MonitorForHeartBeat(http, machine_agent_id) ==
    LET q == Query(http) IN
    IF ~q.ok THEN CatchLookupError(q.exc)
    ELSE CatchLookupError(ScanMessage(q.val, machine_agent_id))


(***************************************************************************)
(* agents.py: the Agents object, its callers and its keep-awake threads.   *)
(*                                                                         *)
(* The k-th call of KeepAgentAwake creates the dict wake_agent_thread k,   *)
(* the threading.Event k (agents.py:832) and, unless it raises, the        *)
(* threading.Thread k (agents.py:833), so the three kinds of object share  *)
(* the index set Calls.  0 stands for a key the dict does not hold.        *)
(***************************************************************************)
Calls == 1..MaxStarts
Callers == 1..NumCallers
CallerProc(c) == <<"caller", c>>
ThreadProc(k) == <<"thread", k>>
Procs == {CallerProc(c) : c \in Callers} \cup {ThreadProc(k) : k \in Calls}

\* agents.py:85
rse_timeout == 10000
\* agents.py:806, the period WakeSpecificAgent falls back to
DefaultWakePeriod == 70
\* agents.py:102, time.sleep(1), on the millisecond clock of agents.py:97
SleepMs == 1000
\* agents.py:97: time.time() * 1000, the clock of the loops in milliseconds
MsPerSecond == 1000
\* the period of a direct KeepAgentAwake call, and the wake_period given to
\* WakeSpecificAgent
KeepPeriods == {LongPeriod}
\* agents.py:760: wake_period=None, the period was not supplied
NoPeriod == -1
WakePeriods == {DefaultWakePeriod}
\* the Timeout.RealTime values, in milliseconds, an agent is configured with
RealTimes == {2000, 3000, 6000, 7000}

VARIABLES
    dicts,               \* the dict objects made at agents.py:826, by index
    n_dicts,             \* how many of them exist
    wake_agent_threads,  \* self.wake_agent_threads: a list of dict references
    ev,                  \* the Event objects: "none", "clear" or "set"
    th,                  \* the keep-awake threads, by index
    fr,                  \* the WakeSpecificAgent activation of each process
    cl,                  \* where each caller is in the method it runs
    hist,                \* per thread: what happened since its signal was set
    rse_http, rse_id, rse_pc, rse_msg, rse_result,  \* one poll of an Rse object
    loglevel,            \* self.loglevel of an AgentLogLevel: id -> saved levels
    agent_level,         \* the logging level id the service holds for each agent
    pushed,              \* per agent: the level held when each saved level was appended
    log_result,          \* what the last AgentLogLevel call returned or raised
    log_sent,            \* the requests the last AgentLogLevel call sent
    log_pc,              \* "alive", "__del__" while AgentLogLevel.__del__ runs, "gone"
    agents,              \* self.agents of an Agents object: id -> details
    detail_calls,        \* the GetAgentDetails calls made, with what each returned
    apihost,             \* self.apihost of each Rse object
    rse_made,            \* the apihost the caller's Rse object was made with
    mode_polls,          \* the polls made: by which object, for which agent, after which RseInit
    bk_state,            \* self._state of a Backup, or Missing
    bk_backup_id,        \* self._backup_id of the Backup, or NoAttr
    bk_kwargs_id,        \* self.backup_id of the Backup (set through kwargs only), or NoAttr
    bk_sent,             \* the request the last Backup call sent, or NoRequest
    bk_pc,               \* "idle", or "waiting" inside wait_for_completion
    bk_result,           \* what the last Backup call returned or raised
    bk_calls             \* the number of Backup requests made so far

agentVars == <<dicts, n_dicts, wake_agent_threads, ev, th, fr, cl, hist>>
rseVars == <<rse_http, rse_id, rse_pc, rse_msg, rse_result>>
logVars == <<loglevel, agent_level, pushed, log_result, log_sent, log_pc>>
detailVars == <<agents, detail_calls>>
modeVars == <<apihost, rse_made, mode_polls>>
backupVars == <<bk_state, bk_backup_id, bk_kwargs_id, bk_sent, bk_pc, bk_result, bk_calls>>
vars == <<dicts, n_dicts, wake_agent_threads, ev, th, fr, cl, hist,
          rse_http, rse_id, rse_pc, rse_msg, rse_result,
          loglevel, agent_level, pushed, log_result, log_sent, log_pc,
          agents, detail_calls,
          apihost, rse_made, mode_polls,
          bk_state, bk_backup_id, bk_kwargs_id, bk_sent, bk_pc, bk_result, bk_calls>>

Min(a, b) == IF a < b THEN a ELSE b

NoDict == [id |-> 0, terminator |-> 0, thread |-> 0]
NoThread == [pc |-> "unborn", notifier |-> 0, agent_id |-> 0, rse_period |-> 0,
             continue_loop |-> TRUE, elapsed |-> 0]
FrameOff == [pc |-> "off", id |-> 0, timeout |-> 0, keep |-> FALSE, period |-> 0,
             elapsed |-> 0, wokeall |-> FALSE, woke_agent |-> FALSE,
             polls |-> 0, fresh |-> FALSE, realtime |-> 0, task |-> 0,
             ret |-> "none"]
Idle == [op |-> "idle", pc |-> "idle", id |-> 0, period |-> 0, k |-> 0, a |-> 0,
         i |-> 0, nested |-> FALSE, last |-> "none"]
NoHist == [signalled |-> FALSE, observed |-> FALSE, attempts |-> 0, late_io |-> FALSE]


(***************************************************************************)
(* What the service answers.                                               *)
(***************************************************************************)
\* the answers to POST /v1.0/user/wakeupagents
WakeResponses == {HttpOk(JNull), HttpError, HttpDown}

HeartbeatEvent(a, age) ==
    JObj([data |-> JObj([Event |-> JStr("Heartbeat"), MachineAgentId |-> JNum(a)]),
          age |-> JNum(age)])

\* the answers to a poll of the event channel inside WakeSpecificAgent
PollResponses ==
    {HttpOk(JObj([events |-> JArr(<<HeartbeatEvent(a, FreshnessLimit - 1)>>)])) :
        a \in AgentIds}
    \cup {HttpOk(JObj([events |-> JArr(<<JObj(EmptyDict),
                                          HeartbeatEvent(a, FreshnessLimit - 1)>>)])) :
             a \in AgentIds}
    \cup {HttpOk(JObj([events |-> JArr(<<>>)])),
          HttpOk(JObj([message |-> JStr("unavailable")])),
          HttpError, HttpDown}

\* the event list of an answer that is an envelope or a bare array
IsEnvelope(http) ==
    /\ http.net = "up" /\ http.status = 200 /\ http.body.t = "obj"
    /\ "events" \in DOMAIN http.body.v /\ http.body.v.events.t = "arr"
IsBareArray(http) == http.net = "up" /\ http.status = 200 /\ http.body.t = "arr"
EventsOf(http) == IF IsEnvelope(http) THEN http.body.v.events.v ELSE http.body.v

\* an entry that holds data, data.Event, data.MachineAgentId and age
HasAllKeys(e) ==
    /\ e.t = "obj" /\ DOMAIN e.v = {"data", "age"}
    /\ e.v.data.t = "obj" /\ DOMAIN e.v.data.v = {"Event", "MachineAgentId"}
\* an entry that is an object, as is its data when it has one, but lacks
\* one of the four keys
LacksKey(e) ==
    /\ e.t = "obj"
    /\ "data" \in DOMAIN e.v => e.v.data.t = "obj"
    /\ ~HasAllKeys(e)
\* a Heartbeat of agent a younger than 26 seconds
FreshHeartbeatOf(e, a) ==
    /\ HasAllKeys(e)
    /\ e.v.data.v.Event.v = "Heartbeat"
    /\ e.v.data.v.MachineAgentId.v = a
    /\ e.v.age.v < 26
StaleHeartbeatOf(e, a) ==
    /\ HasAllKeys(e)
    /\ e.v.data.v.Event.v = "Heartbeat"
    /\ e.v.data.v.MachineAgentId.v = a
    /\ e.v.age.v >= 26

\* an envelope or a bare array whose entries all hold the four keys
WellFormed(http) ==
    /\ IsEnvelope(http) \/ IsBareArray(http)
    /\ \A i \in 1..Len(EventsOf(http)) : HasAllKeys(EventsOf(http)[i])

\* a well-formed answer that holds a Heartbeat of agent a younger than 26
\* seconds
HoldsFreshHeartbeat(http, a) ==
    /\ WellFormed(http)
    /\ \E i \in 1..Len(EventsOf(http)) : FreshHeartbeatOf(EventsOf(http)[i], a)

\* Agents.WakeAgents, agents.py:746-758: the status code of the response;
\* an exception of requests.post is not caught.
WakeAgents(http) ==
    IF http.net = "down" THEN Raise("ConnectionError") ELSE Ok(http.status)

(***************************************************************************)
(* Agents.WakeSpecificAgent, agents.py:760-813, run by process p: a caller *)
(* on the shared Agents object, or a keep-awake thread on its own one.     *)
(* fr[p].elapsed is  now - start_time  of the loop the process is in.      *)
(***************************************************************************)
InLoop(f) == f.pc \in {"p1", "p2"}

\* the thread's record of what it did after its signal
NoteIO(p) ==
    IF p[1] = "thread"
    THEN [hist EXCEPT ![p[2]].late_io = @ \/ hist[p[2]].observed]
    ELSE hist

\* agents.py:771-774
WsaEnter(p, machine_agent_id, timeoutMilliseconds, keep_agent_awake, wake_period) ==
    [FrameOff EXCEPT !.pc = "p1", !.id = machine_agent_id,
                     !.timeout = timeoutMilliseconds, !.keep = keep_agent_awake,
                     !.period = wake_period]

\* The activation once it has a result: "True", "False" or the exception
\* that leaves it.  The loop of a keep-awake thread reads nothing else of it.
WsaFinish(f, p, result) ==
    IF p[1] = "thread"
    THEN [FrameOff EXCEPT !.pc = "done", !.ret = result]
    ELSE [f EXCEPT !.pc = "done", !.ret = result]

\* the calls of MonitorForHeartBeat a caller's activation has made, and
\* whether the answer to the last one held a fresh Heartbeat of the agent
CountPoll(f, p, http) ==
    IF p[1] = "thread" THEN f
    ELSE [f EXCEPT !.polls = @ + 1, !.fresh = HoldsFreshHeartbeat(http, f.id)]

\* a caller's activation makes at most MaxPolls polls before the clock
\* moves on
PollsLeft(f, p) == p[1] = "thread" \/ f.polls < MaxPolls

\* a loop test that never sees the deadline
BeforeDeadline_Always(f) == TRUE

\* agents.py:775 and :785: (int(round(time.time() * 1000))) < finish_time
BeforeDeadline(f) == f.elapsed < f.timeout

\* a match that does not end the second loop
Phase2Match_KeepsPolling(f, p) == f

\* agents.py:786-788 and :792-809: a poll found the heartbeat; the loop
\* breaks, and the call goes on to KeepAgentAwake or returns True
Phase2Match(f, p) ==
    IF f.keep
    THEN [f EXCEPT !.pc = "p3", !.woke_agent = TRUE]
    ELSE WsaFinish([f EXCEPT !.woke_agent = TRUE], p, "True")

\* the first loop falling through into the second one
Phase1Deadline_FallsThrough(f, p) == [f EXCEPT !.pc = "p2", !.elapsed = 0]

\* agents.py:810-813: the first loop ended without a 200
Phase1Deadline(f, p) == WsaFinish(f, p, "False")

\* agents.py:789-791 and :809: the second loop ended without a heartbeat
Phase2Deadline(f, p) == WsaFinish(f, p, "False")

\* agents.py:775-779: one round of the first loop.  Past the deadline the
\* loop ends with wokeall False (:810-813); a 200 breaks it and starts the
\* second loop (:780-784).
WsaBroadcast(p) ==
    /\ fr[p].pc = "p1"
    /\ IF BeforeDeadline(fr[p])
       THEN /\ \E http \in WakeResponses :
                  LET wakeup_status_code == WakeAgents(http) IN
                  fr' = [fr EXCEPT ![p] =
                           IF ~wakeup_status_code.ok
                           THEN WsaFinish(@, p, wakeup_status_code.exc)
                           ELSE IF wakeup_status_code.val = 200
                           THEN [@ EXCEPT !.pc = "p2", !.wokeall = TRUE, !.elapsed = 0]
                           ELSE @]
            /\ hist' = NoteIO(p)
       ELSE /\ fr' = [fr EXCEPT ![p] = Phase1Deadline(@, p)]
            /\ UNCHANGED hist
    /\ UNCHANGED <<dicts, n_dicts, wake_agent_threads, ev, th, cl>>
    /\ UNCHANGED rseVars
    /\ UNCHANGED backupVars
    /\ UNCHANGED modeVars
    /\ UNCHANGED detailVars
    /\ UNCHANGED logVars

\* agents.py:785-788: one round of the second loop.  Past the deadline the
\* loop ends with woke_agent False (:789-791, :809); a heartbeat breaks it
\* (:792-793, :809).
WsaMonitor(p) ==
    /\ fr[p].pc = "p2"
    /\ IF BeforeDeadline(fr[p])
       THEN /\ PollsLeft(fr[p], p)
            /\ \E http \in PollResponses :
                  LET found == MonitorForHeartBeat(http, fr[p].id) IN
                  fr' = [fr EXCEPT ![p] =
                           LET f == CountPoll(@, p, http) IN
                           IF found = "True"
                           THEN Phase2Match(f, p)
                           ELSE IF found = "False"
                           THEN f
                           ELSE WsaFinish(f, p, found)]
            /\ hist' = NoteIO(p)
       ELSE /\ fr' = [fr EXCEPT ![p] = Phase2Deadline(@, p)]
            /\ UNCHANGED hist
    /\ UNCHANGED <<dicts, n_dicts, wake_agent_threads, ev, th, cl>>
    /\ UNCHANGED rseVars
    /\ UNCHANGED backupVars
    /\ UNCHANGED modeVars
    /\ UNCHANGED detailVars
    /\ UNCHANGED logVars

\* time.time() moves on while the process is in one of the two loops
Tick(p) ==
    /\ InLoop(fr[p])
    /\ fr[p].elapsed < fr[p].timeout
    /\ fr' = [fr EXCEPT ![p].elapsed = Min(@ + TickMs, fr[p].timeout)]
    /\ UNCHANGED <<dicts, n_dicts, wake_agent_threads, ev, th, cl, hist>>
    /\ UNCHANGED rseVars
    /\ UNCHANGED backupVars
    /\ UNCHANGED modeVars
    /\ UNCHANGED detailVars
    /\ UNCHANGED logVars

(***************************************************************************)
(* _keep_agent_wake_thread_fn, agents.py:24-107, as thread k.              *)
(***************************************************************************)
Finished(k) == th[k].pc \in {"terminated", "crashed"}
Running(k) == th[k].pc \notin {"unborn", "terminated", "crashed"}

\* a check that never tells the loop to stop
check_notifier_NeverStops(notifier) == TRUE

\* __check_notifier, agents.py:67-82: TRUE when the loop should continue
check_notifier(notifier) == ev[notifier] # "set"

\* the Event after __check_notifier: cleared when it was found set (:79)
AfterCheck(notifier) ==
    IF ev[notifier] = "set" THEN [ev EXCEPT ![notifier] = "clear"] ELSE ev

\* agents.py:89-93: the check at the top of the outer loop
ThreadCheckTop(k) ==
    /\ th[k].pc = "top"
    /\ LET continue_loop == check_notifier(th[k].notifier) IN
       /\ th' = [th EXCEPT ![k].continue_loop = continue_loop,
                           ![k].pc = IF continue_loop THEN "call" ELSE "terminated"]
       /\ hist' = [hist EXCEPT ![k].observed = @ \/ ~continue_loop]
    /\ ev' = AfterCheck(th[k].notifier)
    /\ UNCHANGED <<dicts, n_dicts, wake_agent_threads, fr, cl>>
    /\ UNCHANGED rseVars
    /\ UNCHANGED backupVars
    /\ UNCHANGED modeVars
    /\ UNCHANGED detailVars
    /\ UNCHANGED logVars

\* agents.py:95: the call of WakeSpecificAgent on the thread's own Agents
ThreadCallWake(k) ==
    /\ th[k].pc = "call"
    /\ th' = [th EXCEPT ![k].pc = "wsa"]
    /\ fr' = [fr EXCEPT ![ThreadProc(k)] =
                WsaEnter(ThreadProc(k), th[k].agent_id, rse_timeout, FALSE, NoPeriod)]
    /\ hist' = [hist EXCEPT ![k].attempts =
                   IF hist[k].signalled THEN Min(@ + 1, 2) ELSE @]
    /\ UNCHANGED <<dicts, n_dicts, wake_agent_threads, ev, cl>>
    /\ UNCHANGED rseVars
    /\ UNCHANGED backupVars
    /\ UNCHANGED modeVars
    /\ UNCHANGED detailVars
    /\ UNCHANGED logVars

\* agents.py:95-98 and :103-105: what the loop does with the result; an
\* exception out of WakeSpecificAgent ends the thread function.
ThreadAfterWake(k) ==
    /\ th[k].pc = "wsa"
    /\ fr[ThreadProc(k)].pc = "done"
    /\ th' = [th EXCEPT ![k].elapsed = 0,
                        ![k].pc = CASE fr[ThreadProc(k)].ret = "True" -> "sleep"
                                    [] fr[ThreadProc(k)].ret = "False" -> "top"
                                    [] OTHER -> "crashed"]
    /\ fr' = [fr EXCEPT ![ThreadProc(k)] = FrameOff]
    /\ UNCHANGED <<dicts, n_dicts, wake_agent_threads, ev, cl, hist>>
    /\ UNCHANGED rseVars
    /\ UNCHANGED backupVars
    /\ UNCHANGED modeVars
    /\ UNCHANGED detailVars
    /\ UNCHANGED logVars

\* agents.py:99-102: the test of the inner loop and one round of it, the
\* check and time.sleep(1); when the inner loop ends, the test of the outer
\* loop (:89)
ThreadSleep(k) ==
    /\ th[k].pc = "sleep"
    /\ IF th[k].elapsed < th[k].rse_period /\ th[k].continue_loop
       THEN LET continue_loop == check_notifier(th[k].notifier) IN
            /\ th' = [th EXCEPT ![k].continue_loop = continue_loop,
                                ![k].elapsed = @ + SleepMs]
            /\ hist' = [hist EXCEPT ![k].observed = @ \/ ~continue_loop]
            /\ ev' = AfterCheck(th[k].notifier)
       ELSE /\ th' = [th EXCEPT ![k].pc =
                         IF th[k].continue_loop THEN "top" ELSE "terminated"]
            /\ UNCHANGED <<hist, ev>>
    /\ UNCHANGED <<dicts, n_dicts, wake_agent_threads, fr, cl>>
    /\ UNCHANGED rseVars
    /\ UNCHANGED backupVars
    /\ UNCHANGED modeVars
    /\ UNCHANGED detailVars
    /\ UNCHANGED logVars

(***************************************************************************)
(* The methods of the shared Agents object, run by caller c.               *)
(***************************************************************************)
\* a_thread['id'] == machine_agent_id for the first such entry of the list:
\* its position, or 0 (agents.py:829-830 and :850-851)
FirstWithId(machine_agent_id) ==
    LET hits == {i \in 1..Len(wake_agent_threads) :
                    dicts[wake_agent_threads[i]].id = machine_agent_id} IN
    IF hits = {} THEN 0 ELSE CHOOSE i \in hits : \A j \in hits : i <= j

\* list.remove(x) compares with ==, and two dicts are == when they hold the
\* same keys and values: the position of the first such entry, or 0
FirstEqual(a) ==
    LET hits == {i \in 1..Len(wake_agent_threads) :
                    dicts[wake_agent_threads[i]] = dicts[a]} IN
    IF hits = {} THEN 0 ELSE CHOOSE i \in hits : \A j \in hits : i <= j

RemoveAt(seq, i) == SubSeq(seq, 1, i - 1) \o SubSeq(seq, i + 1, Len(seq))

\* terminator.set(): the Event, and the note that the threads listening to
\* it have been signalled
SetEvent(e) == [ev EXCEPT ![e] = "set"]
Signalled(e) ==
    [k \in Calls |-> IF Running(k) /\ th[k].notifier = e
                     THEN [hist[k] EXCEPT !.signalled = TRUE] ELSE hist[k]]

\* the method of caller c returns (result "None", "True", "False") or
\* raises (the name of the exception)
Return(c, result) == [Idle EXCEPT !.last = result]

Alive == \A c \in Callers : cl[c].op \notin {"__del__", "gone"}

\* agents.py:826-828: the new dict is appended to the list
KaAppend(c, machine_agent_id, period, nested) ==
    LET k == n_dicts + 1 IN
    /\ n_dicts < MaxStarts
    /\ n_dicts' = k
    /\ dicts' = [dicts EXCEPT ![k] = [NoDict EXCEPT !.id = machine_agent_id]]
    /\ wake_agent_threads' = Append(wake_agent_threads, k)
    /\ cl' = [cl EXCEPT ![c] = [Idle EXCEPT !.op = "KeepAgentAwake", !.pc = "ka_find",
                                            !.id = machine_agent_id,
                                            !.period = period, !.k = k,
                                            !.nested = nested]]

\* a caller calls KeepAgentAwake(machine_agent_id, rse, period)
CallKeepAgentAwake(c) ==
    /\ Alive /\ cl[c].op = "idle"
    /\ \E machine_agent_id \in AgentIds, period \in KeepPeriods :
          KaAppend(c, machine_agent_id, period, FALSE)
    /\ UNCHANGED <<ev, th, fr, hist>>
    /\ UNCHANGED rseVars
    /\ UNCHANGED backupVars
    /\ UNCHANGED modeVars
    /\ UNCHANGED detailVars
    /\ UNCHANGED logVars

\* the terminator of the entry the loop found, a_thread['terminator']
my_notifier_OfFoundEntry(c) == dicts[cl[c].a].terminator

\* what the call hands the thread as my_notifier, agents.py:839: the
\* terminator of the dict this call created (0: the dict has no such key)
my_notifier(c) == dicts[cl[c].k].terminator

\* the caller's method ends: back in WakeSpecificAgent when that made the
\* call (agents.py:808-809), else back at the caller.  started is the thread
\* the call started, or 0.
KaEnd(c, raised, started) ==
    IF cl[c].nested
    THEN /\ cl' = [cl EXCEPT ![c] = [Idle EXCEPT !.op = "WakeSpecificAgent",
                                                 !.pc = "wsa"]]
         /\ fr' = [fr EXCEPT ![CallerProc(c)].pc = "done",
                             ![CallerProc(c)].task = started,
                             ![CallerProc(c)].ret =
                                 IF raised = "none" THEN "True" ELSE raised]
    ELSE /\ cl' = [cl EXCEPT ![c] =
                      Return(c, IF raised = "none" THEN "None" ELSE raised)]
         /\ UNCHANGED fr

\* agents.py:829-832: the first entry with the id gets a new Event
KaFind(c) ==
    /\ cl[c].pc = "ka_find"
    /\ LET i == FirstWithId(cl[c].id) IN
       IF i = 0
       THEN /\ KaEnd(c, "none", 0)
            /\ UNCHANGED <<dicts, ev>>
       ELSE /\ dicts' = [dicts EXCEPT ![wake_agent_threads[i]].terminator = cl[c].k]
            /\ ev' = [ev EXCEPT ![cl[c].k] = "clear"]
            /\ cl' = [cl EXCEPT ![c].a = wake_agent_threads[i], ![c].pc = "ka_thread"]
            /\ UNCHANGED fr
    /\ UNCHANGED <<n_dicts, wake_agent_threads, th, hist>>
    /\ UNCHANGED rseVars
    /\ UNCHANGED backupVars
    /\ UNCHANGED modeVars
    /\ UNCHANGED detailVars
    /\ UNCHANGED logVars

\* agents.py:833-841: the kwargs are built first (KeyError when the dict of
\* this call has no terminator), then the Thread is stored and started
KaThread(c) ==
    /\ cl[c].pc = "ka_thread"
    /\ IF my_notifier(c) = 0
       THEN /\ KaEnd(c, "KeyError", 0)
            /\ UNCHANGED <<dicts, th, hist>>
       ELSE /\ dicts' = [dicts EXCEPT ![cl[c].a].thread = cl[c].k]
            /\ th' = [th EXCEPT ![cl[c].k] =
                        [NoThread EXCEPT !.pc = "top", !.notifier = my_notifier(c),
                                         !.agent_id = cl[c].id,
                                         !.rse_period = cl[c].period]]
            /\ hist' = [hist EXCEPT ![cl[c].k] =
                          [NoHist EXCEPT !.signalled = (ev[my_notifier(c)] = "set")]]
            /\ KaEnd(c, "none", cl[c].k)
    /\ UNCHANGED <<n_dicts, wake_agent_threads, ev>>
    /\ UNCHANGED rseVars
    /\ UNCHANGED backupVars
    /\ UNCHANGED modeVars
    /\ UNCHANGED detailVars
    /\ UNCHANGED logVars

\* StopKeepAgentWake(machine_agent_id), agents.py:850-853: the first entry
\* with the id is told to terminate; no entry: the loop ends and the method
\* returns
StopKeepAgentWake(c, machine_agent_id) ==
    /\ Alive /\ cl[c].op = "idle"
    /\ LET i == FirstWithId(machine_agent_id) IN
       IF i = 0
       THEN /\ cl' = [cl EXCEPT ![c] = Return(c, "None")]
            /\ UNCHANGED <<ev, hist>>
       ELSE LET a == wake_agent_threads[i] IN
            IF dicts[a].terminator = 0
            THEN /\ cl' = [cl EXCEPT ![c] = Return(c, "KeyError")]
                 /\ UNCHANGED <<ev, hist>>
            ELSE /\ ev' = SetEvent(dicts[a].terminator)
                 /\ hist' = Signalled(dicts[a].terminator)
                 /\ cl' = [cl EXCEPT ![c] =
                             [Idle EXCEPT !.op = "StopKeepAgentWake", !.pc = "st_join",
                                          !.id = machine_agent_id, !.a = a]]
    /\ UNCHANGED <<dicts, n_dicts, wake_agent_threads, th, fr>>
    /\ UNCHANGED rseVars
    /\ UNCHANGED backupVars
    /\ UNCHANGED modeVars
    /\ UNCHANGED detailVars
    /\ UNCHANGED logVars

\* a caller calls StopKeepAgentWake(machine_agent_id)
CallStopKeepAgentWake(c) ==
    \E machine_agent_id \in AgentIds : StopKeepAgentWake(c, machine_agent_id)

\* agents.py:855: a_thread['thread'].join() returns once the thread ended
StJoin(c) ==
    /\ cl[c].pc = "st_join"
    /\ IF dicts[cl[c].a].thread = 0
       THEN cl' = [cl EXCEPT ![c] = Return(c, "KeyError")]
       ELSE /\ Finished(dicts[cl[c].a].thread)
            /\ cl' = [cl EXCEPT ![c].pc = "st_remove"]
    /\ UNCHANGED <<dicts, n_dicts, wake_agent_threads, ev, th, fr, hist>>
    /\ UNCHANGED rseVars
    /\ UNCHANGED backupVars
    /\ UNCHANGED modeVars
    /\ UNCHANGED detailVars
    /\ UNCHANGED logVars

\* agents.py:856-857: self.wake_agent_threads.remove(a_thread)
StRemove(c) ==
    /\ cl[c].pc = "st_remove"
    /\ LET i == FirstEqual(cl[c].a) IN
       IF i = 0
       THEN /\ cl' = [cl EXCEPT ![c] = Return(c, "ValueError")]
            /\ UNCHANGED wake_agent_threads
       ELSE /\ wake_agent_threads' = RemoveAt(wake_agent_threads, i)
            /\ cl' = [cl EXCEPT ![c] = Return(c, "None")]
    /\ UNCHANGED <<dicts, n_dicts, ev, th, fr, hist>>
    /\ UNCHANGED rseVars
    /\ UNCHANGED backupVars
    /\ UNCHANGED modeVars
    /\ UNCHANGED detailVars
    /\ UNCHANGED logVars


\* a caller calls WakeSpecificAgent(machine_agent_id, rse,
\* timeoutMilliseconds, keep_agent_awake, wake_period) with one of periods
CallWakeSpecificAgentWith(c, periods) ==
    /\ Alive /\ cl[c].op = "idle"
    /\ \E machine_agent_id \in AgentIds, keep_agent_awake \in BOOLEAN,
          wake_period \in periods :
          /\ keep_agent_awake => n_dicts < MaxStarts
          /\ fr' = [fr EXCEPT ![CallerProc(c)] =
                      WsaEnter(CallerProc(c), machine_agent_id, CallerTimeoutMs,
                               keep_agent_awake, wake_period)]
    /\ cl' = [cl EXCEPT ![c] = [Idle EXCEPT !.op = "WakeSpecificAgent", !.pc = "wsa"]]
    /\ UNCHANGED <<dicts, n_dicts, wake_agent_threads, ev, th, hist>>
    /\ UNCHANGED rseVars
    /\ UNCHANGED backupVars
    /\ UNCHANGED modeVars
    /\ UNCHANGED detailVars
    /\ UNCHANGED logVars

\* the caller supplies the period
CallWakeSpecificAgent(c) == CallWakeSpecificAgentWith(c, WakePeriods)

\* the caller supplies the period or leaves it out
CallWakeSpecificAgentAnyPeriod(c) ==
    CallWakeSpecificAgentWith(c, WakePeriods \cup {NoPeriod})

\* self.GetRseHeartbeatConfig(machine_agent_id), agents.py:795: the
\* Heartbeat part of the agent's Rse configuration, realtime being the
\* Timeout.RealTime the agent is configured with
GetRseHeartbeatConfig(machine_agent_id, realtime) ==
    [Timeout |-> [RealTime |-> realtime]]

\* a buffer test that takes a timeout of six seconds for a long one
ChooseWakePeriod_SixIsLong(wake_period, rse_heartbeat_config) ==
    IF wake_period # NoPeriod THEN wake_period
    ELSE LET derived == rse_heartbeat_config.Timeout.RealTime \div 1000 IN
         IF derived >= 6 THEN derived - 5
         ELSE IF derived > 2 THEN derived - 1
         ELSE DefaultWakePeriod

\* agents.py:794-806: the period handed to KeepAgentAwake.  The quotient of
\* two ints is whole under Python 2 and exact under Python 3; the two agree
\* on the whole seconds of RealTimes.
ChooseWakePeriod(wake_period, rse_heartbeat_config) ==
    IF wake_period # NoPeriod THEN wake_period
    ELSE LET derived == rse_heartbeat_config.Timeout.RealTime \div 1000 IN
         IF derived > 6 THEN derived - 5
         ELSE IF derived > 2 THEN derived - 1
         ELSE DefaultWakePeriod

\* the configurations GetRseHeartbeatConfig can return to this activation
\* (it is called only when no period was supplied)
ConfiguredRealTimes(f) == IF f.period = NoPeriod THEN RealTimes ELSE {0}

\* agents.py:792-808: the period is chosen and KeepAgentAwake is called
WsaPhase3(c) ==
    /\ cl[c].pc = "wsa"
    /\ fr[CallerProc(c)].pc = "p3"
    /\ \E realtime \in ConfiguredRealTimes(fr[CallerProc(c)]) :
          LET f == fr[CallerProc(c)]
              wake_period ==
                  ChooseWakePeriod(f.period,
                                   GetRseHeartbeatConfig(f.id, realtime)) IN
          /\ fr' = [fr EXCEPT ![CallerProc(c)].pc = "p3_call",
                              ![CallerProc(c)].realtime = realtime]
          /\ KaAppend(c, f.id, wake_period, TRUE)
    /\ UNCHANGED <<ev, th, hist>>
    /\ UNCHANGED rseVars
    /\ UNCHANGED backupVars
    /\ UNCHANGED modeVars
    /\ UNCHANGED detailVars
    /\ UNCHANGED logVars

\* agents.py:809 and :813: the value, or the exception, reaches the caller
WsaReturn(c) ==
    /\ cl[c].op = "WakeSpecificAgent" /\ cl[c].pc = "wsa"
    /\ fr[CallerProc(c)].pc = "done"
    /\ cl' = [cl EXCEPT ![c] = Return(c, fr[CallerProc(c)].ret)]
    /\ fr' = [fr EXCEPT ![CallerProc(c)] = FrameOff]
    /\ UNCHANGED <<dicts, n_dicts, wake_agent_threads, ev, th, hist>>
    /\ UNCHANGED rseVars
    /\ UNCHANGED backupVars
    /\ UNCHANGED modeVars
    /\ UNCHANGED detailVars
    /\ UNCHANGED logVars

\* Agents.__del__ runs when the last reference to the object is dropped:
\* no method of the object is running then, and none is called afterwards
CallDel(c) ==
    /\ \A d \in Callers : cl[d].op = "idle"
    /\ cl' = [cl EXCEPT ![c] = [Idle EXCEPT !.op = "__del__", !.pc = "del_set",
                                            !.i = 1]]
    /\ UNCHANGED <<dicts, n_dicts, wake_agent_threads, ev, th, fr, hist>>
    /\ UNCHANGED rseVars
    /\ UNCHANGED backupVars
    /\ UNCHANGED modeVars
    /\ UNCHANGED detailVars
    /\ UNCHANGED logVars

\* the interpreter drops an exception raised in __del__: teardown is over
Gone(result) == [Idle EXCEPT !.op = "gone", !.pc = "gone", !.last = result]

\* agents.py:737-739: the first loop, one entry at a time
DelSet(c) ==
    /\ cl[c].pc = "del_set"
    /\ IF cl[c].i > Len(wake_agent_threads)
       THEN /\ cl' = [cl EXCEPT ![c].pc = "del_join", ![c].i = 1]
            /\ UNCHANGED <<ev, hist>>
       ELSE LET a_thread == dicts[wake_agent_threads[cl[c].i]] IN
            IF a_thread.terminator = 0
            THEN /\ cl' = [cl EXCEPT ![c] = Gone("KeyError")]
                 /\ UNCHANGED <<ev, hist>>
            ELSE /\ ev' = SetEvent(a_thread.terminator)
                 /\ hist' = Signalled(a_thread.terminator)
                 /\ cl' = [cl EXCEPT ![c].i = @ + 1]
    /\ UNCHANGED <<dicts, n_dicts, wake_agent_threads, th, fr>>
    /\ UNCHANGED rseVars
    /\ UNCHANGED backupVars
    /\ UNCHANGED modeVars
    /\ UNCHANGED detailVars
    /\ UNCHANGED logVars

\* agents.py:742-744: the second loop, one join at a time
DelJoin(c) ==
    /\ cl[c].pc = "del_join"
    /\ IF cl[c].i > Len(wake_agent_threads)
       THEN cl' = [cl EXCEPT ![c] = Gone("None")]
       ELSE LET a_thread == dicts[wake_agent_threads[cl[c].i]] IN
            IF a_thread.thread = 0
            THEN cl' = [cl EXCEPT ![c] = Gone("KeyError")]
            ELSE /\ Finished(a_thread.thread)
                 /\ cl' = [cl EXCEPT ![c].i = @ + 1]
    /\ UNCHANGED <<dicts, n_dicts, wake_agent_threads, ev, th, fr, hist>>
    /\ UNCHANGED rseVars
    /\ UNCHANGED backupVars
    /\ UNCHANGED modeVars
    /\ UNCHANGED detailVars
    /\ UNCHANGED logVars

(***************************************************************************)
(* The specifications.                                                     *)
(***************************************************************************)
RseIdle ==
    /\ rse_http = HttpError /\ rse_id = 0 /\ rse_pc = "off"
    /\ rse_msg = JNull /\ rse_result = "none"

AgentsInit ==
    /\ dicts = [k \in Calls |-> NoDict]
    /\ n_dicts = 0
    /\ wake_agent_threads = <<>>
    /\ ev = [k \in Calls |-> "none"]
    /\ th = [k \in Calls |-> NoThread]
    /\ fr = [p \in Procs |-> FrameOff]
    /\ cl = [c \in Callers |-> Idle]
    /\ hist = [k \in Calls |-> NoHist]

(***************************************************************************)
(* agents.py: AgentLogLevel, the log level of an agent and the levels      *)
(* saved by PushLogLevel.                                                  *)
(***************************************************************************)
\* agents.py:194-202, the dict  levels  of SetLogLevel
levels == [Fatal |-> 1, Error |-> 2, Warn |-> 3, Info |-> 4, Debug |-> 5,
           Trace |-> 6, All |-> 7]

\* agents.py:185, the values SetLogLevel accepts: the names and 1..7
ValidLevels == {JStr(n) : n \in DOMAIN levels} \cup {JNum(i) : i \in 1..7}

\* agents.py:203-206: o['LoggingLevelid'], the id of a name, a number as it is
LoggingLevelid(level) ==
    IF level.t = "str" /\ level.v \in DOMAIN levels THEN levels[level.v] ELSE level.v

\* the name the service gives a level id (the names of agents.py:151-157)
LevelNameOf(id) == CHOOSE n \in DOMAIN levels : levels[n] = id

\* agents.py:164-165: res.text of a 200 is the name in quotes; a text is the
\* sequence of its pieces, a quote being a piece
Quote == "\""
GetOk(machine_agent_id) ==
    [net |-> "up", status |-> 200,
     text |-> <<Quote, LevelNameOf(agent_level[machine_agent_id]), Quote>>]
GetResponses(machine_agent_id) == {GetOk(machine_agent_id), HttpError, HttpDown}
PutOk == [net |-> "up", status |-> 204]
PutResponses == {PutOk, HttpError, HttpDown}

\* res.text.replace('"', ''), agents.py:165: the pieces that are not quotes
RemoveQuotes(text) ==
    LET rest == SelectSeq(text, LAMBDA piece : piece # Quote) IN
    IF rest = <<>> THEN "" ELSE rest[1]

\* AgentLogLevel.GetLogLevel, agents.py:146-168, for the answer res of
\* requests.get: the name without its quotes on a 200, '' otherwise
GetLogLevel(res) ==
    IF res.net = "down" THEN Raise("ConnectionError")
    ELSE IF res.status = 200 THEN Ok(JStr(RemoveQuotes(res.text)))
    ELSE Ok(JStr(""))

\* any answer of the service taken for a success
SetLogLevel_AnyStatus(level, res) ==
    IF level \notin ValidLevels THEN Raise("ValueError")
    ELSE IF res.net = "down" THEN Raise("ConnectionError")
    ELSE Ok(TRUE)

\* AgentLogLevel.SetLogLevel, agents.py:170-215, for the answer res of
\* requests.put: ValueError before any request for a level that is not
\* valid, True on a 204, False otherwise
SetLogLevel(level, res) ==
    IF level \notin ValidLevels THEN Raise("ValueError")
    ELSE IF res.net = "down" THEN Raise("ConnectionError")
    ELSE Ok(res.status = 204)

\* the request SetLogLevel sends: none for a level that is not valid
SentBySet(level) == IF level \in ValidLevels THEN <<"PUT">> ELSE <<>>

\* the levels the service holds once SetLogLevel has run: the id sent is
\* taken on a 204
LevelsAfterSet(machine_agent_id, level, res) ==
    IF SetLogLevel(level, res) = Ok(TRUE)
    THEN [agent_level EXCEPT ![machine_agent_id] = LoggingLevelid(level)]
    ELSE agent_level

\* AgentLogLevel.HasLogLevels, agents.py:231-241
HasLogLevels(machine_agent_id) ==
    /\ machine_agent_id \in DOMAIN loglevel
    /\ Len(loglevel[machine_agent_id]) > 0

\* the levels a caller pushes: a name, a number, and a value that is not a
\* level
PushedLevels == {JStr("Debug"), JNum(6), JStr("Verbose")}

\* AgentLogLevel.PushLogLevel, agents.py:217-229, with get and put the
\* answers to its two requests: the list is created, the level read is
\* appended, then the new level is set and the result of that is dropped
PushLogLevel(machine_agent_id, level, get, put) ==
    LET created == IF machine_agent_id \in DOMAIN loglevel THEN loglevel
                   ELSE loglevel @@ (machine_agent_id :> <<>>)
        current == GetLogLevel(get)
    IN
    /\ Len(created[machine_agent_id]) < MaxPush
    /\ IF ~current.ok
       THEN /\ loglevel' = created
            /\ log_result' = current.exc
            /\ log_sent' = <<"GET">>
            /\ UNCHANGED <<agent_level, pushed>>
       ELSE /\ loglevel' = [created EXCEPT ![machine_agent_id] = Append(@, current.val)]
            /\ pushed' = [pushed EXCEPT ![machine_agent_id] =
                             Append(@, agent_level[machine_agent_id])]
            /\ agent_level' = LevelsAfterSet(machine_agent_id, level, put)
            /\ log_result' = (IF SetLogLevel(level, put).ok THEN "None"
                              ELSE SetLogLevel(level, put).exc)
            /\ log_sent' = <<"GET">> \o SentBySet(level)
    /\ UNCHANGED agentVars
    /\ UNCHANGED rseVars
    /\ UNCHANGED backupVars
    /\ UNCHANGED modeVars
    /\ UNCHANGED detailVars

\* the list without its last element: list.pop(len(list) - 1)
Front(s) == SubSeq(s, 1, Len(s) - 1)

\* AgentLogLevel.PopLogLevel, agents.py:243-263, with put the answer to its
\* request: the last level saved is set again, and leaves the list only
\* when SetLogLevel returned True
PopLogLevel(machine_agent_id, put) ==
    /\ IF HasLogLevels(machine_agent_id)
       THEN LET index == Len(loglevel[machine_agent_id])
                level == loglevel[machine_agent_id][index]
                set == SetLogLevel(level, put)
            IN
            /\ log_sent' = SentBySet(level)
            /\ IF ~set.ok
               THEN /\ log_result' = set.exc
                    /\ UNCHANGED <<loglevel, agent_level, pushed>>
               ELSE /\ log_result' = "None"
                    /\ agent_level' = LevelsAfterSet(machine_agent_id, level, put)
                    /\ IF set.val
                       THEN /\ loglevel' = [loglevel EXCEPT ![machine_agent_id] = Front(@)]
                            /\ pushed' = [pushed EXCEPT ![machine_agent_id] = Front(@)]
                       ELSE UNCHANGED <<loglevel, pushed>>
       ELSE /\ log_result' = "None"
            /\ log_sent' = <<>>
            /\ UNCHANGED <<loglevel, agent_level, pushed>>
    /\ UNCHANGED agentVars
    /\ UNCHANGED rseVars
    /\ UNCHANGED backupVars
    /\ UNCHANGED modeVars
    /\ UNCHANGED detailVars

\* AgentLogLevel.__init__, agents.py:128-135: self.loglevel = {}; the
\* service holds a level for every agent
LogIdle ==
    /\ loglevel = <<>>
    /\ agent_level = [a \in AgentIds |-> levels.Warn]
    /\ pushed = [a \in AgentIds |-> <<>>]
    /\ log_result = "none"
    /\ log_sent = <<>>
    /\ log_pc = "alive"

(***************************************************************************)
(* agents.py: the agent details an Agents object keeps.                    *)
(***************************************************************************)
\* what GET /v1.0/agent/<id> answers with a 200: the details of that agent
DetailsOf(machine_agent_id) == JObj([MachineAgentId |-> JNum(machine_agent_id)])
DetailsResponses(machine_agent_id) ==
    {HttpOk(DetailsOf(machine_agent_id)), HttpOk(InvalidJson), HttpError, HttpDown}

\* Agents.GetAgentDetails, agents.py:862-877, for the answer res: what it
\* returns or raises
GetAgentDetails(res) ==
    IF res.net = "down" THEN Raise("ConnectionError")
    ELSE IF res.status = 200
         THEN IF res.body.t = "invalid" THEN Raise("ValueError") ELSE Ok(TRUE)
         ELSE Ok(FALSE)

\* self.agents once GetAgentDetails(machine_agent_id) has run: emptied at
\* agents.py:866, before the request, and given the one entry at :873
AgentsAfter(machine_agent_id, res) ==
    IF GetAgentDetails(res) = Ok(TRUE) THEN (machine_agent_id :> res.body) ELSE <<>>

\* a caller calls GetAgentDetails(machine_agent_id)
CallGetAgentDetails ==
    /\ Len(detail_calls) < MaxDetailCalls
    /\ \E machine_agent_id \in AgentIds :
       \E res \in DetailsResponses(machine_agent_id) :
          /\ agents' = AgentsAfter(machine_agent_id, res)
          /\ detail_calls' = Append(detail_calls,
                                    [id |-> machine_agent_id,
                                     result |-> GetAgentDetails(res)])
    /\ UNCHANGED agentVars
    /\ UNCHANGED rseVars
    /\ UNCHANGED backupVars
    /\ UNCHANGED logVars
    /\ UNCHANGED modeVars

\* Agents.GetAgentIds, agents.py:879-884
GetAgentIds == DOMAIN agents

\* Agents.AgentDetails, agents.py:886-895
AgentDetails(machine_agent_id) ==
    IF machine_agent_id \in DOMAIN agents THEN Ok(agents[machine_agent_id])
    ELSE Raise("AgentDetailsNotAvailable")

\* Agents.__init__, agents.py:724: self.agents = {}
DetailsIdle == agents = <<>> /\ detail_calls = <<>>

(***************************************************************************)
(* rse.py: the channel an Rse object polls, and the Rse object a           *)
(* keep-awake thread makes for itself.                                     *)
(***************************************************************************)
\* apihost=None, rse.py:73
NoHost == "None"
\* the two Rse objects: the caller's, and the one the keep-awake thread makes
RseObjects == {"caller", "thread"}

\* agent.GetRseHost(machine_agent_id), rse.py:102: the host of the agent's
\* own channel
GetRseHost(machine_agent_id) ==
    IF machine_agent_id = 1 THEN "rse-1" ELSE "rse-2"

\* Rse.RseInit, rse.py:120-129: which of the two initialisations runs
RseInitOf(host) == IF host = NoHost THEN "RseInitDirect" ELSE "RseInitIndirect"

\* self.apihost once RseInit(machine_agent_id) has run: RseInitDirect
\* stores the agent's host in it (rse.py:102), RseInitIndirect leaves it
ApihostAfter(host, machine_agent_id) ==
    IF host = NoHost THEN GetRseHost(machine_agent_id) ELSE host

\* MonitorForHeartBeat(machine_agent_id) on Rse object o, rse.py:165: the
\* channel is set up by RseInit before the poll
ModePoll(o, machine_agent_id) ==
    /\ Len(mode_polls) < MaxModePolls
    /\ apihost[o] # "unmade"
    /\ mode_polls' = Append(mode_polls, [by |-> o, id |-> machine_agent_id,
                                         init |-> RseInitOf(apihost[o])])
    /\ apihost' = [apihost EXCEPT ![o] = ApihostAfter(@, machine_agent_id)]
    /\ UNCHANGED rse_made
    /\ UNCHANGED agentVars
    /\ UNCHANGED rseVars
    /\ UNCHANGED backupVars
    /\ UNCHANGED logVars
    /\ UNCHANGED detailVars

\* the caller polls for one of the agents
CallerPoll == \E machine_agent_id \in AgentIds : ModePoll("caller", machine_agent_id)

\* KeepAgentAwake(machine_agent_id, rse, period), agents.py:833-839, and
\* the thread's start, agents.py:65: the thread makes its own Rse with
\* apihost=rse_apihost, which is rse.apihost as it is at the call
KeepAwakeStart ==
    /\ apihost["thread"] = "unmade"
    /\ apihost' = [apihost EXCEPT !["thread"] = apihost["caller"]]
    /\ UNCHANGED <<rse_made, mode_polls>>
    /\ UNCHANGED agentVars
    /\ UNCHANGED rseVars
    /\ UNCHANGED backupVars
    /\ UNCHANGED logVars
    /\ UNCHANGED detailVars

\* the thread polls for one of the agents
ThreadPoll == \E machine_agent_id \in AgentIds : ModePoll("thread", machine_agent_id)

\* no Rse object in use
ModeIdle ==
    /\ apihost = [o \in RseObjects |-> "unmade"]
    /\ rse_made = NoHost
    /\ mode_polls = <<>>

(***************************************************************************)
(* Backup (src/rcbu/client/backup.py): the attributes of one Backup        *)
(* object, and its start, stop, report and wait_for_completion.            *)
(***************************************************************************)
\* an attribute the object does not have, and one it has
NoAttr == [has |-> FALSE]
Attr(v) == [has |-> TRUE, v |-> v]
\* self._state before anything has set it
Missing == "missing"

\* config.id, kept as self._config_id (backup.py:48)
ConfigId == 9

\* the states running tests for (backup.py:55) and the ones _is_done tests
\* for (backup.py:104-105)
RunningStates == {"Queued", "Preparing", "InProgress"}
TerminalStates == {"Completed", "CompletedWithErrors", "Failed", "Stopped",
                   "Skipped", "Missed"}

\* Backup.running (backup.py:53-55), of a value of self._state
running(state) ==
    IF state = Missing THEN "AttributeError"
    ELSE IF state \in RunningStates THEN "True" ELSE "False"

\* Backup.id (backup.py:61-63), of a value of self._backup_id
Backup_id(backup_id) == IF backup_id.has THEN backup_id.v ELSE 0

\* no request, the body of an action request (backup.py:75), a report request
NoRequest == [Action |-> "none", Id |-> 0]
ActionRequest(action, op_id) == [Action |-> action, Id |-> op_id]
ReportRequest(id) == [Action |-> "report", Id |-> id]

\* the bodies the service answers an action request with, as characters
Contents == {<<"4">>, <<"1", "2">>, <<>>, <<"x">>}
PostResponses ==
    {[net |-> "up", status |-> 200, content |-> c] : c \in Contents}
        \cup {[net |-> "up", status |-> 503, content |-> <<>>],
              [net |-> "down", status |-> 0, content |-> <<>>]}

\* the answers to a report request: the state the report holds
ReportResponses ==
    {[net |-> "up", status |-> 200, state |-> s] :
        s \in TerminalStates \cup {"InProgress"}}
        \cup {[net |-> "up", status |-> 503, state |-> Missing],
              [net |-> "down", status |-> 0, state |-> Missing]}

\* requests.post / requests.get followed by raise_for_status()
\* (backup.py:76-77, 94-96)
Sent(res) ==
    IF res.net = "down" THEN Raise("ConnectionError")
    ELSE IF res.status >= 400 THEN Raise("HTTPError")
    ELSE Ok(res)

\* int(resp.content) (backup.py:83) of a sequence of characters
DigitChars == <<"0", "1", "2", "3", "4", "5", "6", "7", "8", "9">>
DigitValue(ch) == (CHOOSE i \in 1..Len(DigitChars) : DigitChars[i] = ch) - 1
RECURSIVE DecimalValue(_)
DecimalValue(content) ==
    IF Len(content) = 0 THEN 0
    ELSE DecimalValue(Front(content)) * 10 + DigitValue(content[Len(content)])
int(content) ==
    IF /\ Len(content) > 0
       /\ \A i \in 1..Len(content) : \E j \in 1..Len(DigitChars) : DigitChars[j] = content[i]
    THEN Ok(DecimalValue(content))
    ELSE Raise("ValueError")

\* op_id of Backup._action (backup.py:70): stop() reads self.backup_id
op_id(starting) ==
    IF starting THEN Attr(ConfigId) ELSE bk_kwargs_id

\* Backup._action (backup.py:68-79): the request sent, self._state
\* afterwards and the response returned or the exception raised
Backup_action(starting, res) ==
    LET action == IF starting THEN "StartManual" ELSE "StopManual"
        id == op_id(starting)
    IN  IF ~id.has
        THEN [sent |-> NoRequest, state |-> bk_state, resp |-> Raise("AttributeError")]
        ELSE [sent |-> ActionRequest(action, id.v),
              state |-> IF Sent(res).ok
                        THEN (IF starting THEN "Preparing" ELSE "Stopped")
                        ELSE bk_state,
              resp |-> Sent(res)]

\* Backup.start (backup.py:81-85)
start(res) ==
    LET a == Backup_action(TRUE, res)
        parsed == IF a.resp.ok THEN int(res.content) ELSE a.resp
    IN  /\ bk_pc = "idle"
        /\ bk_calls < MaxBackupCalls
        /\ bk_sent' = a.sent
        /\ bk_state' = a.state
        /\ bk_backup_id' = IF parsed.ok THEN Attr(parsed.val) ELSE bk_backup_id
        /\ bk_result' = IF parsed.ok THEN Ok("Status") ELSE parsed
        /\ bk_calls' = bk_calls + 1
        /\ UNCHANGED <<bk_kwargs_id, bk_pc>>
        /\ UNCHANGED agentVars
        /\ UNCHANGED rseVars
        /\ UNCHANGED logVars
        /\ UNCHANGED detailVars
        /\ UNCHANGED modeVars

\* Backup.stop (backup.py:87-88)
stop(res) ==
    LET a == Backup_action(FALSE, res)
    IN  /\ bk_pc = "idle"
        /\ bk_calls < MaxBackupCalls
        /\ bk_sent' = a.sent
        /\ bk_state' = a.state
        /\ bk_result' = IF a.resp.ok THEN Ok("Response") ELSE a.resp
        /\ bk_calls' = bk_calls + 1
        /\ UNCHANGED <<bk_backup_id, bk_kwargs_id, bk_pc>>
        /\ UNCHANGED agentVars
        /\ UNCHANGED rseVars
        /\ UNCHANGED logVars
        /\ UNCHANGED detailVars
        /\ UNCHANGED modeVars

\* Backup.report (backup.py:90-99): the state of the report, or the exception
report(res) == IF Sent(res).ok THEN Ok(res.state) ELSE Sent(res)

\* Backup._is_done (backup.py:101-105)
is_done(res) ==
    IF report(res).ok THEN Ok(report(res).val \in TerminalStates) ELSE report(res)

\* Backup.wait_for_completion (backup.py:107-109), one pass of its loop:
\* the test of _is_done, and the sleep when it is False
wait_for_completion(res) ==
    /\ bk_pc \in {"idle", "waiting"}
    /\ bk_calls < MaxBackupCalls
    /\ bk_sent' = ReportRequest(Backup_id(bk_backup_id))
    /\ bk_pc' = IF is_done(res) = Ok(FALSE) THEN "waiting" ELSE "idle"
    /\ bk_result' = IF is_done(res) = Ok(TRUE) THEN Ok("None")
                    ELSE IF is_done(res) = Ok(FALSE) THEN bk_result
                    ELSE is_done(res)
    /\ bk_calls' = bk_calls + 1
    /\ UNCHANGED <<bk_state, bk_backup_id, bk_kwargs_id>>
    /\ UNCHANGED agentVars
    /\ UNCHANGED rseVars
    /\ UNCHANGED logVars
    /\ UNCHANGED detailVars
    /\ UNCHANGED modeVars

CallStart == \E res \in PostResponses : start(res)
CallStop == \E res \in PostResponses : stop(res)
CallWaitForCompletion == \E res \in ReportResponses : wait_for_completion(res)

\* no Backup object in use
BackupIdle ==
    /\ bk_state = Missing
    /\ bk_backup_id = NoAttr
    /\ bk_kwargs_id = NoAttr
    /\ bk_sent = NoRequest
    /\ bk_pc = "idle"
    /\ bk_result = Ok("None")
    /\ bk_calls = 0

Init == AgentsInit /\ RseIdle /\ LogIdle /\ DetailsIdle /\ ModeIdle /\ BackupIdle

WsaStep(p) ==
    \/ WsaBroadcast(p)
    \/ WsaMonitor(p)
    \/ Tick(p)

ThreadStep(k) ==
    \/ ThreadCheckTop(k)
    \/ ThreadCallWake(k)
    \/ ThreadAfterWake(k)
    \/ ThreadSleep(k)
    \/ WsaStep(ThreadProc(k))

RegistryStep(c) ==
    \/ CallKeepAgentAwake(c)
    \/ KaFind(c)
    \/ KaThread(c)
    \/ CallStopKeepAgentWake(c)
    \/ StJoin(c)
    \/ StRemove(c)
    \/ CallDel(c)
    \/ DelSet(c)
    \/ DelJoin(c)

CallerStep(c) ==
    \/ RegistryStep(c)
    \/ CallWakeSpecificAgent(c)
    \/ WsaPhase3(c)
    \/ WsaReturn(c)
    \/ WsaStep(CallerProc(c))

\* one caller at a time uses the Agents object; its threads run beside it
Next ==
    \/ CallerStep(1)
    \/ \E k \in Calls : ThreadStep(k)

Spec == Init /\ [][Next]_vars


\* several callers use the Agents object at the same time
ConcNext ==
    \/ \E c \in Callers : RegistryStep(c)
    \/ \E k \in Calls : ThreadStep(k)

ConcSpec == Init /\ [][ConcNext]_vars

\* one caller that starts, stops and tears down keep-awake threads
LiveNext ==
    \/ RegistryStep(1)
    \/ \E k \in Calls : ThreadStep(k)

\* The scheduler runs every thread that can run, the clock moves on, and a
\* method that was called goes on; nothing makes a caller call a method.
Fairness ==
    /\ \A k \in Calls : WF_vars(ThreadStep(k))
    /\ \A k \in Calls : WF_vars(Tick(ThreadProc(k)))
    /\ WF_vars(KaFind(1) \/ KaThread(1) \/ StJoin(1) \/ StRemove(1)
               \/ DelSet(1) \/ DelJoin(1))

LiveSpec == Init /\ [][LiveNext]_vars /\ Fairness

\* one caller that calls WakeSpecificAgent, with or without keep_agent_awake
WakeNext ==
    \/ CallWakeSpecificAgent(1)
    \/ WsaStep(CallerProc(1))
    \/ WsaPhase3(1)
    \/ KaFind(1)
    \/ KaThread(1)
    \/ WsaReturn(1)
    \/ \E k \in Calls : ThreadStep(k)

\* a call that was made goes on, and the clock moves on
WakeFairness ==
    /\ WF_vars(WsaStep(CallerProc(1)) \/ WsaPhase3(1) \/ KaFind(1) \/ KaThread(1)
               \/ WsaReturn(1))
    /\ WF_vars(Tick(CallerProc(1)))

WakeLiveSpec == Init /\ [][WakeNext]_vars /\ WakeFairness

\* one caller that calls WakeSpecificAgent, with or without keep_agent_awake
\* and with or without a period
WakeAnyNext ==
    \/ CallWakeSpecificAgentAnyPeriod(1)
    \/ WsaStep(CallerProc(1))
    \/ WsaPhase3(1)
    \/ KaFind(1)
    \/ KaThread(1)
    \/ WsaReturn(1)
    \/ \E k \in Calls : ThreadStep(k)

WakeSpec == Init /\ [][WakeAnyNext]_vars

(***************************************************************************)
(* One poll of an Rse object, for every response of the bounded sets.      *)
(***************************************************************************)
EventNames == {"Heartbeat", "Backup"}
Ages == {FreshnessLimit - 1, FreshnessLimit}

\* the data member of an event: an object with or without each key, or a
\* string
DataValues ==
    {JObj([Event |-> JStr(e), MachineAgentId |-> JNum(a)]) :
        e \in EventNames, a \in AgentIds}
    \cup {JObj([Event |-> JStr(e)]) : e \in EventNames}
    \cup {JObj([MachineAgentId |-> JNum(a)]) : a \in AgentIds}
    \cup {JObj(EmptyDict), JStr("data")}

\* the entries of an event list: objects with or without data and age, and
\* entries that are not objects
Entries ==
    {JObj([data |-> d, age |-> JNum(g)]) : d \in DataValues, g \in Ages}
    \cup {JObj([data |-> d]) : d \in DataValues}
    \cup {JObj([age |-> JNum(g)]) : g \in Ages}
    \cup {JObj(EmptyDict), JStr("event"), JStr("events"), JNum(0)}

EventLists == UNION {[1..n -> Entries] : n \in 0..MaxEvents}

Bodies ==
    {JObj([events |-> JArr(E)]) : E \in EventLists}
    \cup {JArr(E) : E \in EventLists}
    \cup {JObj(EmptyDict), JObj([message |-> JStr("unavailable")]),
          JObj([events |-> JNull]), JNull, JNum(0), InvalidJson}

HttpResponses == {HttpOk(b) : b \in Bodies} \cup {HttpError, HttpDown}

RseInit ==
    /\ AgentsInit
    /\ BackupIdle
    /\ ModeIdle
    /\ DetailsIdle
    /\ LogIdle
    /\ rse_http \in HttpResponses
    /\ rse_id \in AgentIds
    /\ rse_pc = "call"
    /\ rse_msg = JNull
    /\ rse_result = "none"

\* rse.MonitorForHeartBeat(rse_id) with rse_http the answer of the channel
RseMonitorForHeartBeat ==
    /\ rse_pc = "call"
    /\ rse_pc' = "returned"
    /\ rse_msg' = (IF Query(rse_http).ok THEN Query(rse_http).val ELSE JNull)
    /\ rse_result' = MonitorForHeartBeat(rse_http, rse_id)
    /\ UNCHANGED <<rse_http, rse_id>>
    /\ UNCHANGED agentVars
    /\ UNCHANGED backupVars
    /\ UNCHANGED modeVars
    /\ UNCHANGED detailVars
    /\ UNCHANGED logVars

RseNext == RseMonitorForHeartBeat

RseSpec == RseInit /\ [][RseNext]_vars


(***************************************************************************)
(* Claims about one poll (specification RseSpec).                          *)
(***************************************************************************)
\* C8: for a poll whose response is well formed, MonitorForHeartBeat(id)
\* returns True exactly when some event is a Heartbeat of agent id with
\* age < 26; a Heartbeat of age 26 or more, or of another agent, never counts.
C8_FreshHeartbeatIff ==
    (rse_pc = "returned" /\ WellFormed(rse_http)) =>
        /\ rse_result \in {"True", "False"}
        /\ rse_result = "True" <=>
              \E i \in 1..Len(EventsOf(rse_http)) :
                  FreshHeartbeatOf(EventsOf(rse_http)[i], rse_id)

\* a well-formed response with a stale Heartbeat of the agent, a fresh one of
\* another agent and nothing else: the call has returned False
C8_Witness ==
    /\ rse_pc = "returned" /\ WellFormed(rse_http)
    /\ Len(EventsOf(rse_http)) = 2
    /\ StaleHeartbeatOf(EventsOf(rse_http)[1], rse_id)
    /\ \E a \in AgentIds \ {rse_id} : FreshHeartbeatOf(EventsOf(rse_http)[2], a)
    /\ rse_result = "False"

\* C9: when an entry of the response lacks an expected key, the whole poll
\* counts as failed: MonitorForHeartBeat returns False wherever the entry
\* stands relative to a matching fresh Heartbeat.
C9_MalformedEntryFailsPoll ==
    (/\ rse_pc = "returned"
     /\ IsEnvelope(rse_http) \/ IsBareArray(rse_http)
     /\ \A i \in 1..Len(EventsOf(rse_http)) :
           HasAllKeys(EventsOf(rse_http)[i]) \/ LacksKey(EventsOf(rse_http)[i])
     /\ \E i \in 1..Len(EventsOf(rse_http)) : LacksKey(EventsOf(rse_http)[i]))
    => rse_result = "False"

\* C10: for every JSON shape of a successful poll response,
\* MonitorForHeartBeat returns a boolean and raises nothing.
C10_AnyShapeReturnsBoolean ==
    (/\ rse_pc = "returned"
     /\ rse_http.net = "up" /\ rse_http.status = 200
     /\ rse_http.body.t \in {"obj", "arr"})
    => rse_result \in {"True", "False"}


(***************************************************************************)
(* Claims about the Agents object used by one caller (specification Spec). *)
(***************************************************************************)
\* the deadline of the loop an activation was in has passed
PastDeadline(f) == f.elapsed >= f.timeout

\* C1: when the phase-1 deadline passes and no WakeAgents call has returned
\* 200, WakeSpecificAgent returns False; and as long as no WakeAgents call
\* has returned 200 it has made no call of MonitorForHeartBeat and started
\* no keep-awake thread.
C1_PhaseOrdering ==
    \A c \in Callers :
        LET f == fr[CallerProc(c)] IN
        /\ (f.pc # "off" /\ ~f.wokeall) => (f.polls = 0 /\ f.task = 0)
        /\ (f.pc = "done" /\ ~f.wokeall /\ PastDeadline(f)) => f.ret = "False"

\* a call asked to keep the agent awake whose first loop ran into its
\* deadline: it has returned False
C1_Witness ==
    LET f == fr[CallerProc(1)] IN
    /\ f.pc = "done" /\ f.keep /\ ~f.wokeall /\ PastDeadline(f)
    /\ f.ret = "False" /\ f.polls = 0


\* the keep-awake threads of agent a that are running
RunningFor(a) == {k \in Calls : Running(k) /\ th[k].agent_id = a}

\* C2: after any sequence of KeepAgentAwake, WakeSpecificAgent(keep) and
\* StopKeepAgentWake calls, no agent id has more than one running keep-awake
\* thread.
C2_OneTaskPerAgent == \A a \in AgentIds : Cardinality(RunningFor(a)) <= 1

\* a second KeepAgentAwake for an id whose thread runs has come back (with
\* KeyError), and the first thread still runs
C2_Witness ==
    \E k1 \in Calls, k2 \in Calls :
        /\ k1 < k2 /\ k2 <= n_dicts
        /\ dicts[k1].id = dicts[k2].id
        /\ Running(k1) /\ th[k2].pc = "unborn"
        /\ cl[1].op = "idle" /\ cl[1].last = "KeyError"

\* C3: StopKeepAgentWake(id), once it has signalled the entry of id,
\* eventually returns without error, after any earlier starts and stops.
C3_StopReturns ==
    (cl[1].op = "StopKeepAgentWake") ~> (cl[1].op = "idle" /\ cl[1].last = "None")

\* what C4 says of every state: a thread whose signal has been set has begun
\* at most one call of WakeSpecificAgent since; one that has seen the signal
\* at a check has made no wake broadcast and no poll since, and is at its
\* end or on the way out of the sleep loop
AtMostOneMoreAttempt ==
    \A k \in Calls :
        /\ hist[k].attempts <= 1
        /\ ~hist[k].late_io
        /\ hist[k].observed =>
              \/ th[k].pc = "terminated"
              \/ th[k].pc = "sleep" /\ ~th[k].continue_loop

\* C4: once the signal of a keep-awake thread is set, the thread begins at
\* most one more call of WakeSpecificAgent and then ends; once it has seen
\* the signal at a check it makes no wake broadcast and no poll.
C4_AtMostOneMoreAttempt ==
    /\ []AtMostOneMoreAttempt
    /\ \A k \in Calls : (hist[k].signalled /\ Running(k)) ~> Finished(k)

\* a thread whose signal was set between its check and its call of
\* WakeSpecificAgent: it made that one attempt, saw the signal and ended
C4_Witness ==
    \E k \in Calls :
        /\ hist[k].signalled /\ hist[k].attempts = 1
        /\ hist[k].observed /\ th[k].pc = "terminated"

\* C5: a keep-awake thread ends only after it has seen its cancellation
\* signal; a wake attempt that fails leaves it running.
C5_OnlyCancellationEnds == \A k \in Calls : Finished(k) => hist[k].observed

\* C6: when teardown joins, every registered thread has been signalled, and
\* when teardown is over every registered thread has ended.
C6_TeardownStopsAll ==
    \A c \in Callers :
        LET registered == {dicts[wake_agent_threads[i]].thread :
                              i \in 1..Len(wake_agent_threads)} \ {0} IN
        /\ cl[c].pc = "del_join" =>
              \A k \in registered : Finished(k) \/ hist[k].signalled
        /\ cl[c].op = "gone" => \A k \in registered : Finished(k)

(***************************************************************************)
(* Claims about concurrent callers (specification ConcSpec).               *)
(***************************************************************************)
\* C7: concurrent KeepAgentAwake, StopKeepAgentWake and teardown calls are
\* serialized: no interleaving makes StopKeepAgentWake remove an entry that
\* is no longer in the list (ValueError of list.remove).
C7_NoDoubleRemove == \A c \in Callers : cl[c].last # "ValueError"

(***************************************************************************)
(* Claims about WakeSpecificAgent (specification Spec).                    *)
(***************************************************************************)
\* C11: a transport failure of a wake broadcast or of a poll never leaves
\* WakeSpecificAgent: no call of it, by a caller or by a keep-awake thread,
\* ends with the ConnectionError of requests.
C11_TransportFailureAbsorbed ==
    /\ \A p \in Procs : fr[p].ret # "ConnectionError"
    /\ \A c \in Callers : cl[c].last # "ConnectionError"

\* C12: both waits of WakeSpecificAgent are bounded.  No poll is started
\* once timeoutMilliseconds have passed since the heartbeat wait began; a
\* call whose loop ran into its deadline without a heartbeat returns False;
\* and every call of WakeSpecificAgent comes to its end, whatever the server
\* answers.
C12_BoundedWait ==
    /\ [][\A c \in Callers :
            fr'[CallerProc(c)].polls > fr[CallerProc(c)].polls
               => fr[CallerProc(c)].elapsed < fr[CallerProc(c)].timeout]_vars
    /\ [](\A c \in Callers :
            LET f == fr[CallerProc(c)] IN
            (f.pc = "done" /\ PastDeadline(f) /\ ~f.woke_agent) => f.ret = "False")
    /\ (fr[CallerProc(1)].pc # "off") ~> (fr[CallerProc(1)].pc = "off")

\* a call that got its 200, polled as often as it could without a match,
\* ran into the deadline of the heartbeat wait and returned False
C12_Witness ==
    LET f == fr[CallerProc(1)] IN
    /\ f.pc = "done" /\ f.wokeall /\ ~f.woke_agent
    /\ f.polls = MaxPolls /\ PastDeadline(f) /\ f.ret = "False"

\* C13: when the k-th poll of the heartbeat wait is the first whose answer
\* is well formed and holds a fresh Heartbeat of the agent, the wait ends
\* after exactly these k polls with woke_agent True (the value a call
\* without keep_agent_awake returns), and no further poll is made.
C13_KthPollEndsWait ==
    /\ [](\A c \in Callers :
            LET f == fr[CallerProc(c)] IN
            /\ f.fresh => (f.woke_agent /\ ~InLoop(f))
            /\ f.woke_agent => f.fresh
            /\ (f.pc = "done" /\ f.fresh /\ ~f.keep) => f.ret = "True")
    /\ [][\A c \in Callers :
            fr[CallerProc(c)].woke_agent
               => fr'[CallerProc(c)].polls <= fr[CallerProc(c)].polls]_vars

\* a first poll without a match, then a second one with a fresh Heartbeat
\* of the agent: the call returned True after two polls
C13_Witness ==
    LET f == fr[CallerProc(1)] IN
    /\ f.pc = "done" /\ f.polls = 2 /\ f.fresh /\ f.woke_agent
    /\ ~f.keep /\ f.ret = "True"

(***************************************************************************)
(* Claims about phase 3 of WakeSpecificAgent (specification WakeSpec).     *)
(***************************************************************************)
\* C14: WakeSpecificAgent returns True exactly when its heartbeat wait saw
\* the agent's heartbeat, for every keep_agent_awake and wake_period:
\* nothing that happens in phase 3 changes the value or puts an error in
\* its place.
C14_ReturnsPhase2Result ==
    \A c \in Callers :
        LET f == fr[CallerProc(c)] IN
        (f.pc = "done" /\ f.wokeall /\ (f.woke_agent \/ PastDeadline(f))) =>
            f.ret = (IF f.woke_agent THEN "True" ELSE "False")

\* C15: after a wake attempt of the keep-awake loop succeeded, a thread that
\* was not cancelled leaves its sleep phase, and so makes its next wake
\* broadcast, only when the period, taken in seconds, has passed.
C15_WaitsPeriodSeconds ==
    [][\A k \in Calls :
          (th[k].pc = "sleep" /\ th'[k].pc = "top")
             => th[k].elapsed >= th[k].rse_period * MsPerSecond]_vars

\* the period the keep-awake task is to get: the one supplied, or else, with
\* T the configured RealTime timeout in seconds, T-5 if T > 6, T-1 if
\* 2 < T <= 6, and 70 if T <= 2
ClaimedPeriod(wake_period, realtime) ==
    IF wake_period # NoPeriod THEN wake_period
    ELSE LET T == CHOOSE t \in 0..realtime : t * MsPerSecond = realtime IN
         CASE T > 6 -> T - 5
           [] 2 < T /\ T <= 6 -> T - 1
           [] T <= 2 -> 70

\* C16: the period of the task WakeSpecificAgent starts is the supplied
\* wake_period unchanged, or, when none was supplied, the one derived from
\* the configured RealTime heartbeat timeout.
C16_DefaultPeriod ==
    \A c \in Callers :
        LET f == fr[CallerProc(c)] IN
        (f.pc = "done" /\ f.task # 0) =>
            th[f.task].rse_period = ClaimedPeriod(f.period, f.realtime)

\* a call without wake_period for an agent configured with a RealTime
\* timeout of 6 seconds has started a task with period 5
C16_Witness ==
    LET f == fr[CallerProc(1)] IN
    /\ f.pc = "done" /\ f.task # 0
    /\ f.period = NoPeriod /\ f.realtime = 6 * MsPerSecond
    /\ th[f.task].rse_period = 5


\* C17: when WakeSpecificAgent ends, it has started a keep-awake task, one,
\* for the requested agent id, exactly when the heartbeat was seen and
\* keep_agent_awake was requested.
C17_TaskIffSucceeded ==
    \A c \in Callers :
        LET f == fr[CallerProc(c)] IN
        f.pc = "done" =>
            ((f.woke_agent /\ f.keep) <=>
                (f.task # 0 /\ th[f.task].pc # "off" /\ th[f.task].agent_id = f.id))


\* no entry of the registry holds a keep-awake task for the agent id
NoTaskFor(machine_agent_id) ==
    \A i \in 1..Len(wake_agent_threads) :
        dicts[wake_agent_threads[i]].id = machine_agent_id =>
            dicts[wake_agent_threads[i]].thread = 0

\* C18: StopKeepAgentWake(id) with no keep-awake task registered for id
\* returns without error and leaves the registry, the signals and the tasks
\* of every agent id as they were (so that a second call does what the
\* first did).
C18_StopWithoutTaskIsNoOp ==
    [][\A c \in Callers, machine_agent_id \in AgentIds :
          (NoTaskFor(machine_agent_id) /\ StopKeepAgentWake(c, machine_agent_id)) =>
              /\ cl'[c] = Return(c, "None")
              /\ UNCHANGED <<dicts, n_dicts, wake_agent_threads, ev, th, hist>>]_vars


\* the same events sent as the envelope {"events": E} and as the bare array E
AsEnvelope(http) == HttpOk(JObj([events |-> JArr(EventsOf(http))]))
AsBareArray(http) == HttpOk(JArr(EventsOf(http)))

\* C19: a poll answered with the envelope {"events": E} and a poll answered
\* with the bare array E give the same MonitorForHeartBeat result, for
\* every event list E and every agent id.
C19_EnvelopeEqualsBareArray ==
    (rse_pc = "returned" /\ (IsEnvelope(rse_http) \/ IsBareArray(rse_http))) =>
        /\ rse_result = MonitorForHeartBeat(AsEnvelope(rse_http), rse_id)
        /\ rse_result = MonitorForHeartBeat(AsBareArray(rse_http), rse_id)



(***************************************************************************)
(* One caller of an AgentLogLevel object (specification LogSpec).          *)
(***************************************************************************)
\* the levels the agents are at when the AgentLogLevel is made
StartLevels == {levels.Warn, levels.Trace}

\* an AgentLogLevel just made
LogInit ==
    /\ AgentsInit /\ RseIdle /\ DetailsIdle /\ ModeIdle /\ BackupIdle
    /\ loglevel = <<>>
    /\ agent_level \in [AgentIds -> StartLevels]
    /\ pushed = [a \in AgentIds |-> <<>>]
    /\ log_result = "none"
    /\ log_sent = <<>>
    /\ log_pc = "alive"

CallPushLogLevel ==
    /\ log_pc = "alive"
    /\ \E machine_agent_id \in AgentIds, level \in PushedLevels :
          \E get \in GetResponses(machine_agent_id), put \in PutResponses :
              PushLogLevel(machine_agent_id, level, get, put)
    /\ UNCHANGED log_pc

CallPopLogLevel ==
    /\ log_pc = "alive"
    /\ \E machine_agent_id \in AgentIds, put \in PutResponses :
          PopLogLevel(machine_agent_id, put)
    /\ UNCHANGED log_pc

\* AgentLogLevel.__del__ starts, agents.py:137-139
CallLogDel ==
    /\ log_pc = "alive"
    /\ log_pc' = "__del__"
    /\ UNCHANGED <<loglevel, agent_level, pushed, log_result, log_sent>>
    /\ UNCHANGED agentVars
    /\ UNCHANGED rseVars
    /\ UNCHANGED backupVars
    /\ UNCHANGED modeVars
    /\ UNCHANGED detailVars

\* the agents that still have levels saved
WithLogLevels == {a \in AgentIds : HasLogLevels(a)}

\* One pass of the loops of AgentLogLevel.__del__, agents.py:140-144: the
\* keys are taken in turn, and for a key with levels saved PopLogLevel is
\* called, again and again while HasLogLevels holds.  The loops are left
\* when no key has levels saved, or by an exception, which  except: pass
\* swallows.
LogDelPass ==
    /\ log_pc = "__del__"
    /\ IF WithLogLevels = {}
       THEN /\ log_pc' = "gone"
            /\ UNCHANGED <<loglevel, agent_level, pushed, log_result, log_sent>>
            /\ UNCHANGED agentVars
            /\ UNCHANGED rseVars
            /\ UNCHANGED backupVars
            /\ UNCHANGED modeVars
            /\ UNCHANGED detailVars
       ELSE LET machine_agent == CHOOSE a \in WithLogLevels :
                                     \A b \in WithLogLevels : a <= b IN
            /\ \E put \in PutResponses : PopLogLevel(machine_agent, put)
            /\ log_pc' = IF log_result' = "None" THEN "__del__" ELSE "gone"

LogNext == CallPushLogLevel \/ CallPopLogLevel \/ CallLogDel \/ LogDelPass

LogSpec == LogInit /\ [][LogNext]_vars

\* C20: log levels are a stack per agent: a PopLogLevel(id) the service
\* answers sets the level the agent had before the last PushLogLevel(id, L)
\* still saved and takes it off the stack, so that n pushes and n pops end
\* with an empty stack and the first level.
C20_LogLevelsStack ==
    [][\A machine_agent_id \in AgentIds :
          (HasLogLevels(machine_agent_id) /\ PopLogLevel(machine_agent_id, PutOk)) =>
              /\ agent_level'[machine_agent_id] = pushed[machine_agent_id][Len(pushed[machine_agent_id])]
              /\ loglevel'[machine_agent_id] = Front(loglevel[machine_agent_id])]_vars


\* the restore request of a pop of agent id was sent and accepted: the saved
\* level is one the client sends, and the service answers 204
RestoreAccepted(machine_agent_id, put) ==
    /\ loglevel[machine_agent_id][Len(loglevel[machine_agent_id])] \in ValidLevels
    /\ put.net = "up" /\ put.status = 204

\* C21: PopLogLevel(id) removes the top saved level of agent id, and nothing
\* else, exactly when the request restoring it was accepted; with nothing
\* saved for id it sends no request and changes nothing; a restore that is
\* not accepted leaves the stack as it was.
C21_PopOnlyOnRestore ==
    [][\A machine_agent_id \in AgentIds, put \in PutResponses :
          PopLogLevel(machine_agent_id, put) =>
              IF ~HasLogLevels(machine_agent_id)
              THEN /\ log_sent' = <<>>
                   /\ UNCHANGED <<loglevel, agent_level>>
              ELSE IF RestoreAccepted(machine_agent_id, put)
              THEN /\ DOMAIN loglevel' = DOMAIN loglevel
                   /\ \A a \in DOMAIN loglevel :
                         loglevel'[a] = IF a = machine_agent_id
                                        THEN SubSeq(loglevel[a], 1, Len(loglevel[a]) - 1)
                                        ELSE loglevel[a]
              ELSE UNCHANGED <<loglevel, agent_level>>]_vars

\* a pop of agent 1 was rejected by the service: the request was sent, the
\* level saved is still on the stack and the agent is not back at it
C21_Witness ==
    /\ DOMAIN loglevel = {1} /\ Len(loglevel[1]) = 1
    /\ loglevel[1][1] \in ValidLevels
    /\ log_sent = <<"PUT">> /\ log_result = "None"
    /\ agent_level[1] # pushed[1][1]


\* the number of levels saved in the stacks of the agents in S
RECURSIVE SavedLevels(_, _)
SavedLevels(stacks, S) ==
    IF S = {} THEN 0
    ELSE LET a == CHOOSE x \in S : TRUE IN
         Len(stacks[a]) + SavedLevels(stacks, S \ {a})

\* C25: teardown of an AgentLogLevel ends whatever the service answers:
\* every pass of its loop takes a saved level off a stack or ends the
\* teardown, so that after as many passes as levels are saved it is over,
\* and it cannot go round for ever on a restore the service keeps rejecting.
C25_TeardownTerminates ==
    [][LogDelPass =>
          \/ log_pc' = "gone"
          \/ SavedLevels(loglevel', DOMAIN loglevel') < SavedLevels(loglevel, DOMAIN loglevel)]_vars



(***************************************************************************)
(* One caller of GetAgentDetails (specification DetailsSpec).              *)
(***************************************************************************)
DetailsSpec == Init /\ [][CallGetAgentDetails]_vars

\* the agent ids GetAgentDetails has returned True for
Retrieved ==
    {detail_calls[i].id : i \in {j \in 1..Len(detail_calls) :
                                    detail_calls[j].result = Ok(TRUE)}}

\* C22: every agent GetAgentDetails has succeeded for is in GetAgentIds and
\* AgentDetails returns its details; AgentDetails raises
\* AgentDetailsNotAvailable only for an id never retrieved.
C22_CacheCoversRetrieved ==
    \A a \in AgentIds :
        /\ a \in Retrieved => (a \in GetAgentIds /\ AgentDetails(a) = Ok(DetailsOf(a)))
        /\ ~AgentDetails(a).ok => a \notin Retrieved



(***************************************************************************)
(* The polls of an Rse object and of the thread started with it            *)
(* (specification ModeSpec).                                               *)
(***************************************************************************)
\* the caller makes its Rse object, with apihost None or the host of the API
ModeInit ==
    /\ AgentsInit /\ RseIdle /\ LogIdle /\ DetailsIdle /\ BackupIdle
    /\ rse_made \in {NoHost, "api"}
    /\ apihost = [o \in RseObjects |-> IF o = "caller" THEN rse_made ELSE "unmade"]
    /\ mode_polls = <<>>

ModeNext == CallerPoll \/ KeepAwakeStart \/ ThreadPoll

ModeSpec == ModeInit /\ [][ModeNext]_vars

\* C23: an Rse object made with apihost None polls the direct channel at
\* every MonitorForHeartBeat, not only the first, and so does the keep-awake
\* thread started with it.
C23_ChannelModeFixed ==
    rse_made = NoHost =>
        \A i \in 1..Len(mode_polls) : mode_polls[i].init = "RseInitDirect"


\* C24: whenever no KeepAgentAwake or StopKeepAgentWake call is under way,
\* every entry of wake_agent_threads holds an id, a terminator and a thread,
\* and the notifier that thread was started with is the entry's terminator:
\* setting the entry's terminator reaches the thread that will be joined.
C24_RegistryConsistent ==
    (\A c \in Callers : cl[c].op = "idle") =>
        \A i \in 1..Len(wake_agent_threads) :
            LET a_thread == dicts[wake_agent_threads[i]] IN
            /\ a_thread.id \in AgentIds
            /\ a_thread.terminator # 0
            /\ a_thread.thread # 0
            /\ th[a_thread.thread].notifier = a_thread.terminator



(***************************************************************************)
(* One caller of a Backup object (specification BackupSpec).               *)
(***************************************************************************)
\* Backup(config, connection, **kwargs): kwargs may set _state and backup_id
BackupInit ==
    /\ AgentsInit /\ RseIdle /\ LogIdle /\ DetailsIdle /\ ModeIdle
    /\ bk_state \in {Missing, "Queued"}
    /\ bk_backup_id = NoAttr
    /\ bk_kwargs_id \in {NoAttr, Attr(4)}
    /\ bk_sent = NoRequest
    /\ bk_pc = "idle"
    /\ bk_result = Ok("None")
    /\ bk_calls = 0

BackupNext == CallStart \/ CallStop \/ CallWaitForCompletion

BackupSpec == BackupInit /\ [][BackupNext]_vars


\* C26: a start() that returns leaves the Backup in state 'Preparing', with
\* running True and id the number the service answered; a stop() after it
\* sends a StopManual request with that id and, when the request is accepted,
\* leaves state 'Stopped' with running False; a start() or stop() whose
\* request fails leaves the state as it was.
C26_BackupLifecycle ==
    [][/\ \A res \in PostResponses :
            (start(res) /\ bk_result' = Ok("Status")) =>
                /\ bk_state' = "Preparing"
                /\ running(bk_state') = "True"
                /\ Backup_id(bk_backup_id') = int(res.content).val
       /\ \A res \in PostResponses :
            (bk_backup_id.has /\ stop(res)) =>
                /\ bk_sent' = ActionRequest("StopManual", Backup_id(bk_backup_id))
                /\ Sent(res).ok =>
                       (bk_state' = "Stopped" /\ running(bk_state') = "False")
       /\ \A res \in PostResponses :
            ((start(res) \/ stop(res)) /\ ~Sent(res).ok) =>
                bk_state' = bk_state]_vars

\* C27: wait_for_completion of a Backup that start() has started returns
\* only on a report that holds a terminal state, it returns on the first such
\* report, and when it has returned running is False.
C27_WaitForCompletion ==
    [][\A res \in ReportResponses :
          (bk_backup_id.has /\ wait_for_completion(res)) =>
              LET returned == bk_pc' = "idle" /\ bk_result' = Ok("None") IN
              /\ returned => (Sent(res).ok /\ res.state \in TerminalStates)
              /\ (Sent(res).ok /\ res.state \in TerminalStates) => returned
              /\ returned => running(bk_state') = "False"]_vars

=============================================================================
